---- MODULE Spec2Model ----
(***************************************************************************)
(* brc-tools.                                                              *)
(*   Spec         the upload client: robust_upload (the retry loop)        *)
(*                driving send_file_to_server (one multipart POST), and    *)
(*                the website's multer.diskStorage                         *)
(*                (data/schema/generalfile_pipeline_guide.md)              *)
(*   SpecExport   the observation export: df.select of the five columns    *)
(*                (data/schema/json/data_structure_docs.md), then          *)
(*                export_data (brc_tools/download/README.md)               *)
(*   SpecFilename the naming of the exported file                          *)
(*   SpecConfig   load_config                                              *)
(*   SpecCron     the runs cron starts every ten minutes (unnamed/part_002) *)
(*   SpecDeploy   shellscripts/deploy-chpc.sh                              *)
(*   SpecMonitor  run_health_check of shellscripts/monitor-pipeline.sh     *)
(*   SpecTemplate the cron data-fetch script (brc_tools/aviation/README.md) *)
(*   SpecPeriods  find_consecutive_periods (download/kvel_wind.ipynb)      *)
(***************************************************************************)
EXTENDS Integers, Sequences, FiniteSets, TLC

VARIABLES
    file_exists,   \* whether a file exists at file_path when open() runs
    API_KEY,       \* the key handed to send_file_to_server
    pc,            \* position of the call
    attempt,       \* loop variable of robust_upload
    requests,      \* the requests.post calls made so far, in order
    responses,     \* outcome of each post: the status answered or the error raised
    sleeps,        \* arguments of the time.sleep calls made so far, in order
    printed,       \* the lines printed so far, in order
    result,        \* what the call handed to its caller
    server_address,  \* base URL handed to send_file_to_server
    file_type,       \* data-type slug handed to send_file_to_server
    fpath,           \* path of the file to upload: [stem, ext]
    client_hostname, \* host name the caller has at hand ("None": none)
    file_content,    \* bytes of the local file
    store,           \* files the website keeps on disk: [dir, name, content]
    accepted,        \* number of uploads the website has written to disk
    table,         \* the dataframe handed to the export: [columns, rows]
    df,            \* the dataframe the export is working on
    e_pc,          \* position of the export
    e_error,       \* exception the export raised ("none": none)
    out_file,      \* the JSON file on disk: [exists, records]
    e_printed,     \* number of records export_data reported (-1: nothing printed)
    e_parsed,      \* what json.load gave for the file (<<>>: not read back)
    fn_prefix,     \* prefix handed to generate_filename
    fn_times,      \* the two UTC timestamps handed to generate_filename
    fn_names,      \* the file names it returned for them (<<>>: not called)
    cfg_env,       \* the configuration load_config reads: [api_key, server_address]
    cfg_returned,  \* outcome of each load_config call so far, in order
    now,           \* wall clock of the cron host, in minutes
    runs,          \* the runs cron has started, in order
    d_pc,          \* position of deploy-chpc.sh
    d_args,        \* "$@" of deploy-chpc.sh
    TEST_ONLY,     \* deploy-chpc.sh: set by --test-only
    SKIP_TESTS,    \* deploy-chpc.sh: set by --skip-tests
    d_env,         \* what deploy-chpc.sh finds around it (.env, tests, the operator)
    d_ran,         \* the remote commands deploy-chpc.sh ran, in order
    d_exit,        \* exit status of deploy-chpc.sh (-1: still running)
    m_pc,          \* position of run_health_check
    m_env,         \* what run_health_check finds around it
    issues,        \* run_health_check: local issues
    warnings,      \* run_health_check: local warnings
    m_ran,         \* the checks run so far, in order
    m_log,         \* the ALERT lines written to the log, in order
    m_return,      \* return status of run_health_check (-1: still running)
    t_pc,          \* position of the cron data-fetch script
    t_exit,        \* exit code the fetch command ends with
    t_status,      \* the shell's $?
    t_log,         \* the lines appended to $LOG_FILE, in order
    p_mask,        \* find_consecutive_periods: mask = df[col] > threshold
    min_length,    \* find_consecutive_periods: its min_length argument
    p_pc,          \* position of find_consecutive_periods
    p_i,           \* loop variable i
    start,         \* local start (-1: None)
    periods        \* local periods

uploadVars == <<file_exists, API_KEY, pc, attempt, requests, responses, sleeps,
                printed, result, server_address, file_type, fpath,
                client_hostname, file_content, store, accepted>>

exportVars == <<table, df, e_pc, e_error, out_file, e_printed, e_parsed>>

filenameVars == <<fn_prefix, fn_times, fn_names>>

configVars == <<cfg_env, cfg_returned>>

cronVars == <<now, runs>>

deployVars == <<d_pc, d_args, TEST_ONLY, SKIP_TESTS, d_env, d_ran, d_exit>>

monitorVars == <<m_pc, m_env, issues, warnings, m_ran, m_log, m_return>>

templateVars == <<t_pc, t_exit, t_status, t_log>>

periodVars == <<p_mask, min_length, p_pc, p_i, start, periods>>

\* the state of the scripts and functions around the upload and the export
toolVars == <<configVars, cronVars, deployVars, monitorVars, templateVars,
              periodVars>>

vars == <<uploadVars, exportVars, filenameVars, toolVars>>

-----------------------------------------------------------------------------
(* Program constants *)

max_retries == 3

RETRY_DELAY == 2

\* Python None where a status is expected (post raised, no response object)
NoResponse == 0

\* statuses the remote endpoint may answer with
Statuses == {200, 201, 204, 404, 429, 500, 503}

\* subclasses of requests.RequestException that requests.post raises
RequestExceptions == {"ConnectionError", "Timeout"}

\* API keys a caller may pass: Python None, the empty string, a real key
ApiKeys == {"None", "", "key64"}

\* base URLs and data-type slugs a caller may pass
ServerAddresses == {"https://www.basinwx.com", "http://localhost:3000"}
FileTypes == {"map-obs", "forecast-outlook"}

\* extensions of the files a caller may upload
Extensions == {".json", ".md", ".pdf", ".png", ".jpg", ".jpeg", ".csv"}

\* host names the caller may have at hand
ClientHostnames == {"None", "notch.chpc.utah.edu"}

-----------------------------------------------------------------------------
(* Pure helpers *)

RECURSIVE Pow2(_)
Pow2(n) == IF n <= 0 THEN 1 ELSE 2 * Pow2(n - 1)

\* range(n): the values the for loop binds attempt to
range(n) == 0 .. (n - 1)

\* time.sleep(2 ** attempt)
backoff_delay(a) == Pow2(a)

\* `if attempt == max_retries - 1` in the except clause
last_attempt_early(a) == a = max_retries - 2
last_attempt_late(a) == a = max_retries
last_attempt(a) == a = max_retries - 1

\* endpoint = f"{server_address}/api/data/upload/{file_type}": the pieces of
\* the formatted string, in order
endpoint_upload_route(address, type) == <<address, "/api/upload/", type>>
endpoint(address, type) == <<address, "/api/data/upload/", type>>

\* the website's health route: "$url/api/data/health"
health_endpoint(address) == <<address, "/api/data/health">>

\* the content_types dictionary
content_types ==
    [e \in {".json", ".md", ".pdf", ".png", ".jpg"} |->
        CASE e = ".json" -> "application/json"
          [] e = ".md" -> "text/markdown"
          [] e = ".pdf" -> "application/pdf"
          [] e = ".png" -> "image/png"
          [] e = ".jpg" -> "image/jpeg"]

\* os.path.splitext(fpath)[1] and os.path.basename(fpath)
splitext(path) == path.ext
basename(path) == <<path.stem, path.ext>>

\* content_types.get(file_ext, 'application/octet-stream')
content_type(path) ==
    IF splitext(path) \in DOMAIN content_types
    THEN content_types[splitext(path)]
    ELSE "application/octet-stream"

\* open(fpath, 'rb') ... read by requests: what is on disk afterwards
open_wb(content) == ""
open_rb(content) == content

\* files = {'file': (os.path.basename(fpath), f, content_type)}
files(path, content) ==
    [filename |-> basename(path), body |-> content,
     content_type |-> content_type(path)]

\* headers = {'x-api-key': API_KEY}
headers(key) == [x_api_key |-> key]

\* requests.post(endpoint, files=files, headers=headers, timeout=60): the
\* request on the wire, its header fields next to the endpoint and the file
post(address, type, path, content, key) ==
    headers(key) @@ [endpoint |-> endpoint(address, type),
                     file |-> files(path, content)]

\* `if response.status_code == 200` picks the line send_file_to_server prints
status_line(status) ==
    IF status = 200 THEN [text |-> "Uploaded"] ELSE [text |-> "Upload failed"]

\* outcome of one requests.post: a response object, or a raised exception
response(status) == [status |-> status, error |-> "none"]
raised(e) == [status |-> NoResponse, error |-> e]

\* the status of the response of the last post, None if it raised
last_status ==
    IF responses = <<>> THEN NoResponse ELSE responses[Len(responses)].status

\* number of loop iterations entered: attempt is 0-based
attempts_used == IF pc = "READY" THEN 0 ELSE attempt + 1

-----------------------------------------------------------------------------
(* The website's multer.diskStorage *)

\* destination: uploadPaths[fileType] || 'public/data'
uploadDir(type) ==
    CASE type = "map-obs" -> "public/data/json"
      [] type = "forecast-outlook" -> "public/data/outlooks"
      [] type = "weather-charts" -> "public/data/images"
      [] type = "forecast-reports" -> "public/data/reports"
      [] OTHER -> "public/data"

\* filename: cb(null, file.originalname); n counts the uploads written so far
filename_numbered(originalname, n) == <<originalname, n>>
filename(originalname, n) == <<originalname>>

\* the disk after multer wrote one upload: a file of the same directory and
\* name is overwritten
diskStorage(disk, type, file, n) ==
    {f \in disk : ~(f.dir = uploadDir(type) /\ f.name = filename(file.filename, n))}
    \cup {[dir |-> uploadDir(type), name |-> filename(file.filename, n),
           content |-> file.body]}

-----------------------------------------------------------------------------
(* Observation export: df.select of the five columns, then export_data     *)

\* largest number of rows of an input table
MaxRows == 2

\* the five columns of an observation record, and one column more
Required == {"stid", "variable", "value", "date_time", "units"}
AllColumns == Required \cup {"elevation"}

\* dtype of a column once the frame is a pandas frame
dtype(col) ==
    CASE col \in {"value", "elevation"} -> "float64"
      [] col = "date_time" -> "datetime64"
      [] OTHER -> "object"

\* cells: a number, a string (its characters), a time, and the null values
\* of polars (null), of pandas (NaN, None) and of JSON (null, NaN)
cell(t, num, str) == [t |-> t, num |-> num, str |-> str]
Num(n) == cell("num", n, <<>>)
Str(chars) == cell("str", 0, chars)
Time(k) == cell("time", k, <<>>)
PolarsNull == cell("null", 0, <<>>)
NaN == cell("nan", 0, <<>>)
None == cell("none", 0, <<>>)
JsonNull == cell("json_null", 0, <<>>)
JsonNaN == cell("json_NaN", 0, <<>>)

\* str(pd.Timestamp) of the k-th observation time
TimestampStr == <<"2025-07-29 23:15:00+00:00", "2025-07-29 23:30:00+00:00">>

\* df.select([pl.col("stid"), ...]): polars raises ColumnNotFoundError when
\* a named column is absent
select_present(frame, cols) ==
    [raised |-> FALSE,
     df |-> [columns |-> cols \cap frame.columns,
             rows |-> [i \in 1 .. Len(frame.rows) |->
                          [c \in cols \cap frame.columns |-> frame.rows[i][c]]]]]
select(frame, cols) ==
    IF cols \subseteq frame.columns
    THEN [raised |-> FALSE,
          df |-> [columns |-> cols,
                  rows |-> [i \in 1 .. Len(frame.rows) |->
                               [c \in cols |-> frame.rows[i][c]]]]]
    ELSE [raised |-> TRUE, df |-> frame]

\* df.to_pandas(): a polars null becomes NaN in a float column, None elsewhere
to_pandas_cell(c, col) ==
    IF c.t = "null" THEN (IF dtype(col) = "float64" THEN NaN ELSE None) ELSE c
to_pandas(frame) ==
    [columns |-> frame.columns,
     rows |-> [i \in 1 .. Len(frame.rows) |->
                  [c \in frame.columns |-> to_pandas_cell(frame.rows[i][c], c)]]]

\* pd.notnull
notnull(c) == c.t \notin {"nan", "none"}

\* df.where(pd.notnull(df), None): a null cell takes the value None; a float64
\* column cannot hold None, pandas (1.3 and later) stores it as NaN again
where_cell(c, col) ==
    IF notnull(c) THEN c
    ELSE IF dtype(col) = "float64" THEN NaN ELSE None
dropna(frame) ==
    [columns |-> frame.columns,
     rows |-> SelectSeq(frame.rows,
                        LAMBDA r : \A c \in frame.columns : notnull(r[c]))]
where_notnull_None(frame) ==
    [columns |-> frame.columns,
     rows |-> [i \in 1 .. Len(frame.rows) |->
                  [c \in frame.columns |-> where_cell(frame.rows[i][c], c)]]]

\* str.strip('"'): drop the leading and the trailing '"' characters
RECURSIVE lstrip(_)
lstrip(chars) ==
    IF chars # <<>> /\ Head(chars) = "\"" THEN lstrip(Tail(chars)) ELSE chars
RECURSIVE rstrip(_)
rstrip(chars) ==
    IF chars # <<>> /\ chars[Len(chars)] = "\""
    THEN rstrip(SubSeq(chars, 1, Len(chars) - 1))
    ELSE chars
strip(chars) == rstrip(lstrip(chars))

\* df[col].str.strip('"') for the columns of select_dtypes(include=['object'])
strip_cell(c, col) ==
    IF dtype(col) = "object" /\ c.t = "str" THEN Str(strip(c.str)) ELSE c

strip_object_columns(frame) ==
    [columns |-> frame.columns,
     rows |-> [i \in 1 .. Len(frame.rows) |->
                  [c \in frame.columns |-> strip_cell(frame.rows[i][c], c)]]]

\* clean_dataframe_for_json
clean_dataframe_for_json(frame) ==
    strip_object_columns(where_notnull_None(to_pandas(frame)))

\* json.dump(..., default=str) of one value: None is written null, a float
\* NaN is written NaN, a Timestamp goes through str
json_value(c, col) ==
    CASE c.t = "none" -> JsonNull
      [] c.t = "nan" -> JsonNaN
      [] c.t = "time" -> Str(<<TimestampStr[c.num]>>)
      [] OTHER -> c

\* json.dump(df.to_dict(orient='records'), f, default=str): one object per
\* row, in row order, keyed by column name
json_dump(frame) ==
    [i \in 1 .. Len(frame.rows) |->
        [c \in frame.columns |-> json_value(frame.rows[i][c], c)]]

\* json.load of one value of the file: null is read as None, the NaN literal
\* as the float nan, a string as a string
json_load_value(c) ==
    CASE c.t = "json_null" -> None
      [] c.t = "json_NaN" -> NaN
      [] OTHER -> c

\* json.load(f) of the file json.dump wrote: a list of dicts
json_load(records) ==
    [i \in 1 .. Len(records) |->
        [c \in DOMAIN records[i] |-> json_load_value(records[i][c])]]

\* Python's == on two values: nan is not equal to nan
py_eq(a, b) == a = b /\ a.t # "nan"

\* rows a table may hold
Rows ==
    {[c \in AllColumns |->
        CASE c = "stid" -> st
          [] c = "variable" -> Str(<<"o", "3">>)
          [] c = "value" -> va
          [] c = "date_time" -> Time(1)
          [] c = "units" -> un
          [] c = "elevation" -> Num(1500)] :
      st \in {Str(<<"U">>), Str(<<"\"", "W", "\"">>)},
      va \in {Num(51), Num(27), NaN, PolarsNull},
      un \in {Str(<<"p", "p", "b">>), PolarsNull}}

RECURSIVE SeqsUpTo(_, _)
SeqsUpTo(S, n) ==
    IF n = 0 THEN {<<>>}
    ELSE SeqsUpTo(S, n - 1) \cup
         {Append(q, x) : q \in {q \in SeqsUpTo(S, n - 1) : Len(q) = n - 1}, x \in S}

\* column sets a table may have: the five, one more, one or two missing
ColumnSets ==
    {Required, AllColumns, AllColumns \ {"units"}, Required \ {"value"}}

\* tables handed to the export
Tables ==
    {[columns |-> cs, rows |-> [i \in 1 .. Len(rs) |-> [c \in cs |-> rs[i][c]]]] :
        cs \in ColumnSets, rs \in SeqsUpTo(Rows, MaxRows)}

\* the file at the target path before the export: none, or an older export
NoFile == [exists |-> FALSE, records |-> <<>>]
OldFile == [exists |-> TRUE, records |-> <<[c \in Required |-> JsonNull]>>]

EmptyFrame == [columns |-> {}, rows |-> <<>>]

\* the export is not running
IdleExport ==
    /\ table = EmptyFrame
    /\ df = EmptyFrame
    /\ e_pc = "IDLE"
    /\ e_error = "none"
    /\ out_file = NoFile
    /\ e_printed = -1
    /\ e_parsed = <<>>

\* the upload is not running
IdleUpload ==
    /\ file_exists = FALSE
    /\ API_KEY = "None"
    /\ pc = "IDLE"
    /\ attempt = 0
    /\ requests = <<>>
    /\ responses = <<>>
    /\ sleeps = <<>>
    /\ printed = <<>>
    /\ result = "none"
    /\ server_address = "https://www.basinwx.com"
    /\ file_type = "map-obs"
    /\ fpath = [stem |-> "map_obs_20250204_0000Z", ext |-> ".json"]
    /\ client_hostname = "None"
    /\ file_content = ""
    /\ store = {}
    /\ accepted = 0

-----------------------------------------------------------------------------
(* File naming: {prefix}_{YYYYMMDD}_{HHMM}Z.json from a UTC timestamp      *)

Digit == <<"0", "1", "2", "3", "4", "5", "6", "7", "8", "9">>

\* a number as its decimal digits, without and with zero padding to two
unpadded(n) ==
    IF n < 10 THEN <<Digit[n + 1]>>
    ELSE <<Digit[(n \div 10) + 1], Digit[(n % 10) + 1]>>
pad2(n) == <<Digit[(n \div 10) + 1], Digit[(n % 10) + 1]>>

\* a year as four digits
pad4(n) == pad2(n \div 100) \o pad2(n % 100)

\* the characters of the file name
generate_filename(prefix, ts) ==
    <<prefix, "_">> \o pad4(ts.year) \o pad2(ts.month) \o pad2(ts.day)
        \o <<"_">> \o pad2(ts.hour) \o pad2(ts.minute) \o <<"Z", ".json">>

\* the timestamp truncated to the minute
truncate_to_minute(ts) == [ts EXCEPT !.second = 0]

\* UTC timestamps and prefixes handed to generate_filename
Timestamps ==
    [year : {2025}, month : {1, 2, 11}, day : {1, 4, 11}, hour : {0, 10},
     minute : {0, 1, 10}, second : {0, 30}]
Prefixes == {"map_obs", "map_obs_meta"}

\* generate_filename is not running
IdleFilename ==
    /\ fn_prefix = "map_obs"
    /\ fn_times = <<>>
    /\ fn_names = <<>>

-----------------------------------------------------------------------------
(* load_config: the API key and the server address from the configuration  *)

\* largest number of load_config calls followed
MaxCalls == 2

\* what the configuration may hold for each value: nothing (None), an empty
\* string, a value
ConfigEnvs ==
    [api_key : ApiKeys \cup {"key64b"},
     server_address : ServerAddresses \cup {"None", ""}]

\* a value is absent when it is not set or set to the empty string
absent_none_only(v) == v = "None"
absent(v) == v \in {"None", ""}

\* load_config(): the pair, or ConfigError naming the first missing value
load_config(env) ==
    IF absent(env.api_key)
    THEN [env |-> env, ok |-> FALSE, error |-> "ConfigError",
          missing |-> "api_key", api_key |-> "None", server_address |-> "None"]
    ELSE IF absent(env.server_address)
    THEN [env |-> env, ok |-> FALSE, error |-> "ConfigError",
          missing |-> "server_address", api_key |-> "None",
          server_address |-> "None"]
    ELSE [env |-> env, ok |-> TRUE, error |-> "none", missing |-> "none",
          api_key |-> env.api_key, server_address |-> env.server_address]

-----------------------------------------------------------------------------
(* The scheduled runs: cron starts get_map_obs.py every ten minutes; a run *)
(* fetches, saves the file under its name and uploads it                    *)

\* minutes of wall clock and number of runs followed
MaxMinutes == 11
MaxRuns == 2

\* the minute field of the crontab entry: */10
cron_period == 10

\* timeout=60 of requests.post, in minutes
timeout_minutes == 1

\* the UTC time at minute m of the day the runs are followed on
utc(m) ==
    [year |-> 2025, month |-> 2, day |-> 4, hour |-> m \div 60,
     minute |-> m % 60, second |-> 0]

\* a run that cron has just started
new_run(m) == [pc |-> "FETCH", started |-> m, attempt |-> 0, artifact |-> <<>>,
               sent |-> -1]

\* cron has a run to start at this minute
cron_due ==
    /\ now % cron_period = 0
    /\ Len(runs) < MaxRuns
    /\ \A i \in 1 .. Len(runs) : runs[i].started # now

\* the runs whose request for the artifact is on the wire
in_flight(artifact) ==
    {i \in 1 .. Len(runs) : runs[i].pc = "IN_FLIGHT" /\ runs[i].artifact = artifact}

-----------------------------------------------------------------------------
(* deploy-chpc.sh *)

\* largest number of command-line arguments
MaxArgs == 2

\* arguments an operator may type
Options == {"--test-only", "--skip-tests", "--dry-run"}

\* what the operator may type at the prompt, as characters
Answers == {<<"y">>, <<"Y">>, <<"n">>, <<>>, <<"y", "e", "s">>}

required_vars == <<"CHPC_USER", "CHPC_HOST", "CHPC_PROJECT_DIR">>

\* the for loop over "$@": the flags it sets, and whether it met an option
\* it does not know (it exits there)
RECURSIVE parse_args(_, _)
parse_args(args, flags) ==
    IF args = <<>> THEN flags
    ELSE CASE Head(args) = "--test-only" ->
                  parse_args(Tail(args), [flags EXCEPT !.TEST_ONLY = TRUE])
           [] Head(args) = "--skip-tests" ->
                  parse_args(Tail(args), [flags EXCEPT !.SKIP_TESTS = TRUE])
           [] OTHER -> [flags EXCEPT !.unknown = TRUE]

\* [[ -z "${!var}" ]] for the first of required_vars it holds for, 0 if none
RECURSIVE first_unset(_, _)
first_unset(env, k) ==
    IF k > Len(required_vars) THEN 0
    ELSE IF env[required_vars[k]] = "" THEN k
    ELSE first_unset(env, k + 1)

\* [[ "$response" =~ ^[Yy]$ ]]
confirms_prefix(answer) == Len(answer) >= 1 /\ answer[1] \in {"y", "Y"}
confirms(answer) == Len(answer) = 1 /\ answer[1] \in {"y", "Y"}

\* what the script may find around it
DeployEnvs ==
    [env_file : BOOLEAN,
     CHPC_USER : {"", "u0123456"},
     CHPC_HOST : {"", "notchpeak.chpc.utah.edu"},
     CHPC_PROJECT_DIR : {"", "~/brc-tools"},
     tests_pass : BOOLEAN,
     answer : Answers]

-----------------------------------------------------------------------------
(* monitor-pipeline.sh: run_health_check and the checks it calls            *)

max_age_hours == 2

\* what run_health_check may find around it
MonitorEnvs ==
    [ALERTS : BOOLEAN,
     key_length : {0, 63, 64},                 \* ${#DATA_UPLOAD_API_KEY}
     BRC_SERVER_URL : {"", "https://basinwx.com"},
     curl : {"200", "503", "unreachable"},      \* outcome of the curl call
     data_dir : BOOLEAN,                        \* ./data is a directory
     latest_file : BOOLEAN,                     \* a map_obs_*.json was found
     file_age_hours : {2, 3},
     disk_usage : {90, 91},
     free : BOOLEAN,                            \* command -v free
     mem_usage : {90, 91}]

\* return status of check_api_config
check_api_config(env) ==
    IF env.key_length = 0 THEN 1
    ELSE IF env.key_length # 64 THEN 1
    ELSE 0

\* return status of check_website_health
check_website_health(env) ==
    IF env.curl # "unreachable"
    THEN (IF env.curl = "200" THEN 0 ELSE 1)
    ELSE 2

\* return status of check_data_freshness
check_data_freshness(env) ==
    IF ~env.data_dir THEN 1
    ELSE IF ~env.latest_file THEN 1
    ELSE IF env.file_age_hours <= max_age_hours THEN 0
    ELSE 1

\* return status of check_system_resources
check_system_resources(env) ==
    IF env.disk_usage > 90 THEN 1
    ELSE IF env.free /\ env.mem_usage > 90 THEN 1
    ELSE 0

\* send_alert: the line log_with_timestamp writes
send_alert(message, severity) == [severity |-> severity, message |-> message]

\* the return at the end of run_health_check
summary_warnings_first(i, w) == IF w > 0 THEN 2 ELSE IF i > 0 THEN 1 ELSE 0
summary(i, w) == IF i > 0 THEN 1 ELSE IF w > 0 THEN 2 ELSE 0

-----------------------------------------------------------------------------
(* The cron data-fetch script of the aviation README                        *)

\* exit statuses a command may end with
ExitCodes == 0 .. 255

\* exit status of the test command [ $? -eq 0 ]
test_eq_0(status) == IF status = 0 THEN 0 ELSE 1

\* the lines the script appends to $LOG_FILE
starting_line == [text |-> "Starting data fetch...", code |-> 0]
success_line == [text |-> "Data fetch completed successfully", code |-> 0]
failure_line(status) == [text |-> "Data fetch failed with exit code", code |-> status]

-----------------------------------------------------------------------------
(* find_consecutive_periods (kvel_wind.ipynb)                               *)

\* largest number of rows of df
MaxLen == 5

\* values of df[col], thresholds and min_length arguments
WindSpeeds == {Num(4), Num(9), NaN}
Thresholds == {4, 6}
MinLengths == 1 .. 3

\* df[col] > threshold for one value: a NaN compares False
gt(c, threshold) == c.t = "num" /\ c.num > threshold

\* mask = df[col] > threshold
gt_mask(column, threshold) ==
    [k \in 1 .. Len(column) |-> gt(column[k], threshold)]

\* `i - start >= min_length` and `len(df) - start >= min_length`
longer_than(length, least) == length > least
long_enough(length, least) == length >= least

\* DataFrame columns the function may be handed
WindColumns == SeqsUpTo(WindSpeeds, MaxLen)

-----------------------------------------------------------------------------
(* The scripts and functions around the upload and the export, at rest     *)

IdleConfig ==
    /\ cfg_env = <<>>
    /\ cfg_returned = <<>>

IdleCron ==
    /\ now = 0
    /\ runs = <<>>

IdleDeploy ==
    /\ d_pc = "IDLE"
    /\ d_args = <<>>
    /\ TEST_ONLY = FALSE
    /\ SKIP_TESTS = FALSE
    /\ d_env = <<>>
    /\ d_ran = <<>>
    /\ d_exit = -1

IdleMonitor ==
    /\ m_pc = "IDLE"
    /\ m_env = <<>>
    /\ issues = 0
    /\ warnings = 0
    /\ m_ran = <<>>
    /\ m_log = <<>>
    /\ m_return = -1

IdleTemplate ==
    /\ t_pc = "IDLE"
    /\ t_exit = 0
    /\ t_status = 0
    /\ t_log = <<>>

IdlePeriods ==
    /\ p_mask = <<>>
    /\ min_length = 1
    /\ p_pc = "IDLE"
    /\ p_i = 0
    /\ start = -1
    /\ periods = <<>>

\* none of them is running
IdleTools ==
    /\ IdleConfig
    /\ IdleCron
    /\ IdleDeploy
    /\ IdleMonitor
    /\ IdleTemplate
    /\ IdlePeriods

-----------------------------------------------------------------------------
(* State machine *)

Init ==
    /\ file_exists \in BOOLEAN
    /\ API_KEY \in ApiKeys
    /\ pc = "READY"
    /\ attempt = 0
    /\ requests = <<>>
    /\ responses = <<>>
    /\ sleeps = <<>>
    /\ printed = <<>>
    /\ result = "none"
    /\ server_address \in ServerAddresses
    /\ file_type \in FileTypes
    /\ fpath \in [stem : {"map_obs_20250204_0000Z"}, ext : Extensions]
    /\ client_hostname \in ClientHostnames
    /\ file_content = IF file_exists THEN "bytes" ELSE ""
    /\ store = {}
    /\ accepted = 0
    /\ IdleExport
    /\ IdleFilename
    /\ IdleTools

\* what no step of the call changes: its arguments
args_unchanged ==
    UNCHANGED <<file_exists, API_KEY, server_address, file_type, fpath,
                client_hostname, exportVars, filenameVars, toolVars>>

\* robust_upload is called: the for loop binds attempt to range(max_retries)[0]
robust_upload ==
    /\ pc = "READY"
    /\ 0 \in range(max_retries)
    /\ pc' = "SENDING"
    /\ attempt' = 0
    /\ args_unchanged
    /\ UNCHANGED <<requests, responses, sleeps, printed, result, file_content,
                   store, accepted>>

\* send_file_to_server: open(fpath, 'rb') raises FileNotFoundError, which is
\* not a requests.RequestException, so robust_upload does not catch it
send_file_missing ==
    /\ pc = "SENDING"
    /\ ~file_exists
    /\ pc' = "RAISED"
    /\ result' = "FileNotFoundError"
    /\ args_unchanged
    /\ UNCHANGED <<attempt, requests, responses, sleeps, printed, file_content,
                   store, accepted>>

\* send_file_to_server: requests.post returns a response (any status); one
\* line is printed, the function returns None and robust_upload returns True.
\* The website answers 200 once it has written the upload to disk.
send_file_response ==
    /\ pc = "SENDING"
    /\ file_exists
    /\ file_content' = open_rb(file_content)
    /\ \E status \in Statuses :
        /\ requests' = Append(requests, post(server_address, file_type, fpath,
                                             file_content, API_KEY))
        /\ responses' = Append(responses, response(status))
        /\ printed' = Append(printed, status_line(status))
        /\ IF status = 200
           THEN /\ store' = diskStorage(store, file_type,
                                        files(fpath, file_content), accepted)
                /\ accepted' = accepted + 1
           ELSE UNCHANGED <<store, accepted>>
    /\ pc' = "SUCCESS"
    /\ result' = "True"
    /\ args_unchanged
    /\ UNCHANGED <<attempt, sleeps>>

\* send_file_to_server: requests.post raises a RequestException; the except
\* clause of robust_upload either gives up (return False) or goes on to sleep.
\* The website may have written the upload before the connection broke.
send_file_exception ==
    /\ pc = "SENDING"
    /\ file_exists
    /\ file_content' = open_rb(file_content)
    /\ \E e \in RequestExceptions :
        /\ requests' = Append(requests, post(server_address, file_type, fpath,
                                             file_content, API_KEY))
        /\ responses' = Append(responses, raised(e))
        /\ IF last_attempt(attempt)
           THEN /\ printed' = Append(printed, [text |-> "Failed after",
                                               attempts |-> max_retries,
                                               error |-> e])
                /\ pc' = "FAILED"
                /\ result' = "False"
           ELSE /\ pc' = "RETRY_WAIT"
                /\ UNCHANGED <<printed, result>>
    /\ \E written \in BOOLEAN :
        IF written
        THEN /\ store' = diskStorage(store, file_type,
                                     files(fpath, file_content), accepted)
             /\ accepted' = accepted + 1
        ELSE UNCHANGED <<store, accepted>>
    /\ args_unchanged
    /\ UNCHANGED <<attempt, sleeps>>

\* time.sleep(2 ** attempt), then the for loop binds the next attempt; when
\* range is exhausted the function falls off its end and returns None
backoff_sleep ==
    /\ pc = "RETRY_WAIT"
    /\ sleeps' = Append(sleeps, backoff_delay(attempt))
    /\ IF attempt + 1 \in range(max_retries)
       THEN /\ attempt' = attempt + 1
            /\ pc' = "SENDING"
            /\ UNCHANGED result
       ELSE /\ pc' = "RETURNED_NONE"
            /\ result' = "None"
            /\ UNCHANGED attempt
    /\ args_unchanged
    /\ UNCHANGED <<requests, responses, printed, file_content, store, accepted>>

Next ==
    \/ robust_upload
    \/ send_file_missing
    \/ send_file_response
    \/ send_file_exception
    \/ backoff_sleep

Spec == Init /\ [][Next]_vars

\* the call is a sequential program: it keeps running until it returns
FairSpec == Spec /\ WF_vars(Next)

\* the call has handed something to its caller
Terminated == pc \in {"SUCCESS", "FAILED", "RAISED", "RETURNED_NONE"}

\* the step is one requests.post
Posted == Len(responses') = Len(responses) + 1

-----------------------------------------------------------------------------
(* Export state machine *)

InitExport ==
    /\ IdleUpload
    /\ IdleFilename
    /\ IdleTools
    /\ table \in Tables
    /\ df = table
    /\ e_pc = "START"
    /\ e_error = "none"
    /\ out_file \in {NoFile, OldFile}
    /\ e_printed = -1
    /\ e_parsed = <<>>

\* df_clean = df.select([...]) finds the five columns
select_columns ==
    /\ e_pc = "START"
    /\ ~select(df, Required).raised
    /\ df' = select(df, Required).df
    /\ e_pc' = "SELECTED"
    /\ UNCHANGED <<table, e_error, out_file, e_printed, e_parsed, uploadVars,
                   filenameVars, toolVars>>

\* df_clean = df.select([...]) raises: nothing after it runs
select_raises ==
    /\ e_pc = "START"
    /\ select(df, Required).raised
    /\ e_pc' = "RAISED"
    /\ e_error' = "ColumnNotFoundError"
    /\ UNCHANGED <<table, df, out_file, e_printed, e_parsed, uploadVars,
                   filenameVars, toolVars>>

\* export_data: clean the frame, write it to filename, print the row count
export_data ==
    /\ e_pc = "SELECTED"
    /\ df' = clean_dataframe_for_json(df)
    /\ out_file' = [exists |-> TRUE, records |-> json_dump(df')]
    /\ e_printed' = Len(df'.rows)
    /\ e_pc' = "DONE"
    /\ UNCHANGED <<table, e_error, e_parsed, uploadVars, filenameVars, toolVars>>

\* the file is read back: records = json.load(f)
read_back ==
    /\ e_pc = "DONE"
    /\ e_parsed' = json_load(out_file.records)
    /\ e_pc' = "PARSED"
    /\ UNCHANGED <<table, df, e_error, out_file, e_printed, uploadVars,
                   filenameVars, toolVars>>

NextExport ==
    \/ select_columns
    \/ select_raises
    \/ export_data
    \/ read_back

SpecExport == InitExport /\ [][NextExport]_vars

-----------------------------------------------------------------------------
(* File naming state machine *)

InitFilename ==
    /\ IdleUpload
    /\ IdleExport
    /\ IdleTools
    /\ fn_prefix \in Prefixes
    /\ fn_times \in Timestamps \X Timestamps
    /\ fn_names = <<>>

\* generate_filename is called once for each of the two timestamps
generate_filenames ==
    /\ fn_names = <<>>
    /\ fn_times # <<>>
    /\ fn_names' = <<generate_filename(fn_prefix, fn_times[1]),
                     generate_filename(fn_prefix, fn_times[2])>>
    /\ UNCHANGED <<fn_prefix, fn_times, uploadVars, exportVars, toolVars>>

NextFilename == generate_filenames

SpecFilename == InitFilename /\ [][NextFilename]_vars

-----------------------------------------------------------------------------
(* load_config state machine *)

InitConfig ==
    /\ IdleUpload
    /\ IdleExport
    /\ IdleFilename
    /\ IdleCron
    /\ IdleDeploy
    /\ IdleMonitor
    /\ IdleTemplate
    /\ IdlePeriods
    /\ cfg_env \in ConfigEnvs
    /\ cfg_returned = <<>>

config_others ==
    <<uploadVars, exportVars, filenameVars, cronVars, deployVars, monitorVars,
      templateVars, periodVars>>

\* api_key, url = load_config()
call_load_config ==
    /\ Len(cfg_returned) < MaxCalls
    /\ cfg_returned' = Append(cfg_returned, load_config(cfg_env))
    /\ UNCHANGED <<cfg_env, config_others>>

\* the operator edits .env or the config directory between two calls
edit_config ==
    /\ Len(cfg_returned) < MaxCalls
    /\ cfg_env' \in ConfigEnvs \ {cfg_env}
    /\ UNCHANGED <<cfg_returned, config_others>>

NextConfig ==
    \/ call_load_config
    \/ edit_config

SpecConfig == InitConfig /\ [][NextConfig]_vars

-----------------------------------------------------------------------------
(* Scheduled runs state machine *)

InitCron ==
    /\ IdleUpload
    /\ IdleExport
    /\ IdleFilename
    /\ IdleConfig
    /\ IdleDeploy
    /\ IdleMonitor
    /\ IdleTemplate
    /\ IdlePeriods
    /\ now = 0
    /\ runs = <<>>

cron_others ==
    <<uploadVars, exportVars, filenameVars, configVars, deployVars, monitorVars,
      templateVars, periodVars>>

\* the clock reaches the next minute; cron does not miss a minute, and a
\* request does not outlast its timeout
clock_tick ==
    /\ now < MaxMinutes
    /\ ~cron_due
    /\ \A i \in 1 .. Len(runs) :
          runs[i].pc = "IN_FLIGHT" => now - runs[i].sent < timeout_minutes
    /\ now' = now + 1
    /\ UNCHANGED <<runs, cron_others>>

\* cron starts a run, whatever the earlier runs are doing
cron_start_run ==
    /\ cron_due
    /\ runs' = Append(runs, new_run(now))
    /\ UNCHANGED <<now, cron_others>>

\* the run has its data and saves the file under the name of this minute
run_fetch_and_save ==
    /\ \E i \in 1 .. Len(runs) :
          /\ runs[i].pc = "FETCH"
          /\ runs' = [runs EXCEPT ![i].pc = "SENDING",
                                  ![i].artifact =
                                      generate_filename("map_obs", utc(now))]
    /\ UNCHANGED <<now, cron_others>>

\* robust_upload: requests.post is called
run_post ==
    /\ \E i \in 1 .. Len(runs) :
          /\ runs[i].pc = "SENDING"
          /\ runs' = [runs EXCEPT ![i].pc = "IN_FLIGHT", ![i].sent = now]
    /\ UNCHANGED <<now, cron_others>>

\* robust_upload: the post returned a response, return True
run_response ==
    /\ \E i \in 1 .. Len(runs) :
          /\ runs[i].pc = "IN_FLIGHT"
          /\ runs' = [runs EXCEPT ![i].pc = "SUCCESS"]
    /\ UNCHANGED <<now, cron_others>>

\* robust_upload: the post raised; return False after the last attempt
run_exception ==
    /\ \E i \in 1 .. Len(runs) :
          /\ runs[i].pc = "IN_FLIGHT"
          /\ runs' = [runs EXCEPT ![i].pc = IF last_attempt(runs[i].attempt)
                                            THEN "FAILED" ELSE "RETRY_WAIT"]
    /\ UNCHANGED <<now, cron_others>>

\* robust_upload: time.sleep(2 ** attempt), a second or two, then the next
\* attempt
run_backoff_sleep ==
    /\ \E i \in 1 .. Len(runs) :
          /\ runs[i].pc = "RETRY_WAIT"
          /\ runs' = [runs EXCEPT ![i].pc = "SENDING",
                                  ![i].attempt = runs[i].attempt + 1]
    /\ UNCHANGED <<now, cron_others>>

NextCron ==
    \/ clock_tick
    \/ cron_start_run
    \/ run_fetch_and_save
    \/ run_post
    \/ run_response
    \/ run_exception
    \/ run_backoff_sleep

SpecCron == InitCron /\ [][NextCron]_vars

-----------------------------------------------------------------------------
(* deploy-chpc.sh state machine *)

InitDeploy ==
    /\ IdleUpload
    /\ IdleExport
    /\ IdleFilename
    /\ IdleConfig
    /\ IdleCron
    /\ IdleMonitor
    /\ IdleTemplate
    /\ IdlePeriods
    /\ d_pc = "PARSE_ARGS"
    /\ d_args \in SeqsUpTo(Options, MaxArgs)
    /\ TEST_ONLY = FALSE
    /\ SKIP_TESTS = FALSE
    /\ d_env \in DeployEnvs
    /\ d_ran = <<>>
    /\ d_exit = -1

deploy_others ==
    <<uploadVars, exportVars, filenameVars, configVars, cronVars, monitorVars,
      templateVars, periodVars>>

\* lines 8-16: the flags, or exit 1 on an unknown option
parse_arguments ==
    /\ d_pc = "PARSE_ARGS"
    /\ LET flags == parse_args(d_args, [TEST_ONLY |-> FALSE, SKIP_TESTS |-> FALSE,
                                        unknown |-> FALSE])
       IN  /\ TEST_ONLY' = flags.TEST_ONLY
           /\ SKIP_TESTS' = flags.SKIP_TESTS
           /\ IF flags.unknown
              THEN d_pc' = "EXIT" /\ d_exit' = 1
              ELSE d_pc' = "CHECK_ENV_FILE" /\ UNCHANGED d_exit
    /\ UNCHANGED <<d_args, d_env, d_ran, deploy_others>>

\* lines 22-25: [[ ! -f ".env" ]]
check_env_file ==
    /\ d_pc = "CHECK_ENV_FILE"
    /\ IF ~d_env.env_file
       THEN d_pc' = "EXIT" /\ d_exit' = 1
       ELSE d_pc' = "LOAD_ENV" /\ UNCHANGED d_exit
    /\ UNCHANGED <<d_args, TEST_ONLY, SKIP_TESTS, d_env, d_ran, deploy_others>>

\* lines 28-35: source .env, then every required variable must be non-empty
load_environment ==
    /\ d_pc = "LOAD_ENV"
    /\ IF first_unset(d_env, 1) # 0
       THEN d_pc' = "EXIT" /\ d_exit' = 1
       ELSE d_pc' = "LOCAL_TESTS" /\ UNCHANGED d_exit
    /\ UNCHANGED <<d_args, TEST_ONLY, SKIP_TESTS, d_env, d_ran, deploy_others>>

\* lines 38-46: the local tests; when they fail the operator is asked
test_local_setup ==
    /\ d_pc = "LOCAL_TESTS"
    /\ IF ~d_env.tests_pass /\ ~confirms(d_env.answer)
       THEN d_pc' = "EXIT" /\ d_exit' = 1
       ELSE d_pc' = "TEST_ONLY" /\ UNCHANGED d_exit
    /\ UNCHANGED <<d_args, TEST_ONLY, SKIP_TESTS, d_env, d_ran, deploy_others>>

\* lines 48-51: the dry run stops here
test_only_exit ==
    /\ d_pc = "TEST_ONLY"
    /\ IF TEST_ONLY
       THEN d_pc' = "EXIT" /\ d_exit' = 0
       ELSE d_pc' = "RSYNC" /\ UNCHANGED d_exit
    /\ UNCHANGED <<d_args, TEST_ONLY, SKIP_TESTS, d_env, d_ran, deploy_others>>

\* lines 55-59: rsync to the server; set -e ends the script when it fails
sync_code ==
    /\ d_pc = "RSYNC"
    /\ d_ran' = Append(d_ran, "rsync")
    /\ \E status \in {0, 23} :
          IF status # 0
          THEN d_pc' = "EXIT" /\ d_exit' = status
          ELSE d_pc' = "SSH_SETUP" /\ UNCHANGED d_exit
    /\ UNCHANGED <<d_args, TEST_ONLY, SKIP_TESTS, d_env, deploy_others>>

\* lines 63-85: the remote set-up over ssh
remote_setup ==
    /\ d_pc = "SSH_SETUP"
    /\ d_ran' = Append(d_ran, "ssh setup")
    /\ \E status \in {0, 1} :
          IF status # 0
          THEN d_pc' = "EXIT" /\ d_exit' = status
          ELSE d_pc' = "END_TO_END" /\ UNCHANGED d_exit
    /\ UNCHANGED <<d_args, TEST_ONLY, SKIP_TESTS, d_env, deploy_others>>

\* lines 87-93: the end-to-end test over ssh unless --skip-tests, then done
end_to_end_test ==
    /\ d_pc = "END_TO_END"
    /\ IF SKIP_TESTS = FALSE
       THEN /\ d_ran' = Append(d_ran, "ssh end-to-end")
            /\ \E status \in {0, 1} : d_exit' = status
       ELSE /\ d_exit' = 0
            /\ UNCHANGED d_ran
    /\ d_pc' = "EXIT"
    /\ UNCHANGED <<d_args, TEST_ONLY, SKIP_TESTS, d_env, deploy_others>>

NextDeploy ==
    \/ parse_arguments
    \/ check_env_file
    \/ load_environment
    \/ test_local_setup
    \/ test_only_exit
    \/ sync_code
    \/ remote_setup
    \/ end_to_end_test

SpecDeploy == InitDeploy /\ [][NextDeploy]_vars

-----------------------------------------------------------------------------
(* run_health_check state machine *)

InitMonitor ==
    /\ IdleUpload
    /\ IdleExport
    /\ IdleFilename
    /\ IdleConfig
    /\ IdleCron
    /\ IdleDeploy
    /\ IdleTemplate
    /\ IdlePeriods
    /\ m_pc = "API_CONFIG"
    /\ m_env \in MonitorEnvs
    /\ issues = 0
    /\ warnings = 0
    /\ m_ran = <<>>
    /\ m_log = <<>>
    /\ m_return = -1

monitor_others ==
    <<uploadVars, exportVars, filenameVars, configVars, cronVars, deployVars,
      templateVars, periodVars>>

\* lines 141-144
health_api_config ==
    /\ m_pc = "API_CONFIG"
    /\ m_ran' = Append(m_ran, "check_api_config")
    /\ IF check_api_config(m_env) # 0
       THEN /\ issues' = issues + 1
            /\ m_log' = Append(m_log, send_alert("API configuration invalid",
                                                 "ERROR"))
       ELSE UNCHANGED <<issues, m_log>>
    /\ m_pc' = "WEBSITE"
    /\ UNCHANGED <<m_env, warnings, m_return, monitor_others>>

\* lines 147-154: the website is checked only when its URL is configured
health_website ==
    /\ m_pc = "WEBSITE"
    /\ IF m_env.BRC_SERVER_URL # ""
       THEN /\ m_ran' = Append(m_ran, "check_website_health")
            /\ IF check_website_health(m_env) # 0
               THEN /\ warnings' = warnings + 1
                    /\ m_log' = Append(m_log,
                                       send_alert("Website health check failed",
                                                  "WARNING"))
               ELSE UNCHANGED <<warnings, m_log>>
       ELSE UNCHANGED <<m_ran, warnings, m_log>>
    /\ m_pc' = "FRESHNESS"
    /\ UNCHANGED <<m_env, issues, m_return, monitor_others>>

\* lines 157-160
health_data_freshness ==
    /\ m_pc = "FRESHNESS"
    /\ m_ran' = Append(m_ran, "check_data_freshness")
    /\ IF check_data_freshness(m_env) # 0
       THEN /\ warnings' = warnings + 1
            /\ m_log' = Append(m_log, send_alert("Data appears stale", "WARNING"))
       ELSE UNCHANGED <<warnings, m_log>>
    /\ m_pc' = "RESOURCES"
    /\ UNCHANGED <<m_env, issues, m_return, monitor_others>>

\* lines 163-166
health_system_resources ==
    /\ m_pc = "RESOURCES"
    /\ m_ran' = Append(m_ran, "check_system_resources")
    /\ IF check_system_resources(m_env) # 0
       THEN /\ warnings' = warnings + 1
            /\ m_log' = Append(m_log, send_alert("System resources constrained",
                                                 "WARNING"))
       ELSE UNCHANGED <<warnings, m_log>>
    /\ m_pc' = "SUMMARY"
    /\ UNCHANGED <<m_env, issues, m_return, monitor_others>>

\* lines 169-177
health_summary ==
    /\ m_pc = "SUMMARY"
    /\ m_return' = summary(issues, warnings)
    /\ m_pc' = "RETURNED"
    /\ UNCHANGED <<m_env, issues, warnings, m_ran, m_log, monitor_others>>

NextMonitor ==
    \/ health_api_config
    \/ health_website
    \/ health_data_freshness
    \/ health_system_resources
    \/ health_summary

SpecMonitor == InitMonitor /\ [][NextMonitor]_vars

-----------------------------------------------------------------------------
(* Cron data-fetch script state machine *)

InitTemplate ==
    /\ IdleUpload
    /\ IdleExport
    /\ IdleFilename
    /\ IdleConfig
    /\ IdleCron
    /\ IdleDeploy
    /\ IdleMonitor
    /\ IdlePeriods
    /\ t_pc = "START"
    /\ t_exit \in ExitCodes
    /\ t_status = 0
    /\ t_log = <<>>

template_others ==
    <<uploadVars, exportVars, filenameVars, configVars, cronVars, deployVars,
      monitorVars, periodVars>>

\* echo "$(date): Starting data fetch..." >> $LOG_FILE
echo_starting ==
    /\ t_pc = "START"
    /\ t_log' = Append(t_log, starting_line)
    /\ t_status' = 0
    /\ t_pc' = "FETCH"
    /\ UNCHANGED <<t_exit, template_others>>

\* python -m brc_tools.download.get_map_obs >> $LOG_FILE 2>&1
python_get_map_obs ==
    /\ t_pc = "FETCH"
    /\ t_status' = t_exit
    /\ t_pc' = "TEST"
    /\ UNCHANGED <<t_exit, t_log, template_others>>

\* if [ $? -eq 0 ]: the test is a command, $? is its exit status afterwards
if_test ==
    /\ t_pc = "TEST"
    /\ t_status' = test_eq_0(t_status)
    /\ t_pc' = IF test_eq_0(t_status) = 0 THEN "THEN" ELSE "ELSE"
    /\ UNCHANGED <<t_exit, t_log, template_others>>

\* echo "$(date): Data fetch completed successfully" >> $LOG_FILE
echo_success ==
    /\ t_pc = "THEN"
    /\ t_log' = Append(t_log, success_line)
    /\ t_status' = 0
    /\ t_pc' = "DONE"
    /\ UNCHANGED <<t_exit, template_others>>

\* echo "$(date): Data fetch failed with exit code $?" >> $LOG_FILE
echo_failure ==
    /\ t_pc = "ELSE"
    /\ t_log' = Append(t_log, failure_line(t_status))
    /\ t_status' = 0
    /\ t_pc' = "DONE"
    /\ UNCHANGED <<t_exit, template_others>>

NextTemplate ==
    \/ echo_starting
    \/ python_get_map_obs
    \/ if_test
    \/ echo_success
    \/ echo_failure

SpecTemplate == InitTemplate /\ [][NextTemplate]_vars

-----------------------------------------------------------------------------
(* find_consecutive_periods state machine *)

InitPeriods ==
    /\ IdleUpload
    /\ IdleExport
    /\ IdleFilename
    /\ IdleConfig
    /\ IdleCron
    /\ IdleDeploy
    /\ IdleMonitor
    /\ IdleTemplate
    /\ p_mask \in {gt_mask(column, threshold) :
                       column \in WindColumns, threshold \in Thresholds}
    /\ min_length \in MinLengths
    /\ p_pc = "LOOP"
    /\ p_i = 0
    /\ start = -1
    /\ periods = <<>>

periods_others ==
    <<uploadVars, exportVars, filenameVars, configVars, cronVars, deployVars,
      monitorVars, templateVars>>

\* one iteration of `for i, val in enumerate(mask)`
loop_iteration ==
    /\ p_pc = "LOOP"
    /\ p_i < Len(p_mask)
    /\ LET val == p_mask[p_i + 1]
       IN  IF val /\ start = -1
           THEN /\ start' = p_i
                /\ UNCHANGED periods
           ELSE IF ~val /\ start # -1
           THEN /\ periods' = IF long_enough(p_i - start, min_length)
                               THEN Append(periods, <<start, p_i - 1>>)
                               ELSE periods
                /\ start' = -1
           ELSE UNCHANGED <<start, periods>>
    /\ p_i' = p_i + 1
    /\ UNCHANGED <<p_mask, min_length, p_pc, periods_others>>

\* after the loop: the run that reaches the last row, then return periods
after_loop ==
    /\ p_pc = "LOOP"
    /\ p_i = Len(p_mask)
    /\ periods' = IF start # -1 /\ long_enough(Len(p_mask) - start, min_length)
                   THEN Append(periods, <<start, Len(p_mask) - 1>>)
                   ELSE periods
    /\ p_pc' = "RETURNED"
    /\ UNCHANGED <<p_mask, min_length, p_i, start, periods_others>>

NextPeriods ==
    \/ loop_iteration
    \/ after_loop

SpecPeriods == InitPeriods /\ [][NextPeriods]_vars

-----------------------------------------------------------------------------
(* C1: a call never makes more than max_retries requests, and the number   *)
(* of attempts it reports (the loop count on return True, the count in the  *)
(* "Failed after" line on return False) is the number of requests made.     *)
C1_RequestsBounded ==
    /\ Len(requests) <= max_retries
    /\ pc = "SUCCESS" => attempts_used = Len(requests)
    /\ pc = "FAILED" =>
          /\ attempts_used = Len(requests)
          /\ printed[Len(printed)].text = "Failed after"
          /\ printed[Len(printed)].attempts = Len(requests)

\* all attempts were used up and the call gave up
C1_Witness == pc = "FAILED" /\ Len(requests) = max_retries

(* C2: every call eventually reaches one of the terminal states SUCCESS or *)
(* FAILED (each request returns or times out, each sleep elapses).          *)
C2_ReachesSuccessOrFailed == <>(pc \in {"SUCCESS", "FAILED"})

(* C3: a finished call reports success if and only if its last request got *)
(* a response with a status in 200..299.                                    *)
C3_SuccessIffLast2xx ==
    Terminated =>
        ((result = "True") <=> (requests # <<>> /\ last_status \in 200 .. 299))

(* C4: an attempt that ends in a transient failure (no response, or a 5xx  *)
(* status) while attempts remain is followed by the backoff wait.           *)
C4_TransientFailureRetried ==
    [][(/\ pc = "SENDING"
        /\ Posted
        /\ (last_status' = NoResponse \/ last_status' \in 500 .. 599)
        /\ attempts_used < max_retries) => pc' = "RETRY_WAIT"]_vars

(* C5: when the first request is answered with a 4xx status other than 429 *)
(* the call is FAILED with one attempt used and no backoff sleep.           *)
C5_ClientErrorFailsAtOnce ==
    (responses # <<>> /\ responses[1].status \in (400 .. 499) \ {429}) =>
        (pc = "FAILED" /\ attempts_used = 1 /\ sleeps = <<>>)

(* C6: a 429 answer while attempts remain is followed by the backoff wait, *)
(* and a call whose answer was 429 fails only after max_retries requests.   *)
C6_ThrottlingRetried ==
    [][(pc = "SENDING" /\ Posted /\ last_status' = 429) =>
          IF attempts_used < max_retries
          THEN pc' = "RETRY_WAIT"
          ELSE pc' = "FAILED"]_vars

(* C7: the i-th sleep, the one before attempt n = i + 1, lasts             *)
(* RETRY_DELAY * 2^(n-2) seconds: 2 s, then 4 s.                            *)
C7_BackoffDelays ==
    \A i \in 1 .. Len(sleeps) : sleeps[i] = RETRY_DELAY * Pow2(i - 1)

(* C8: a call on a path with no file makes no request and ends by          *)
(* returning a failure result.                                              *)
C8_MissingFileFails ==
    ~file_exists => (requests = <<>> /\ (Terminated => result = "False"))

(* C9: no request carries an empty or null x-api-key, and a call with an  *)
(* empty or null API key on an existing file returns a failure result.     *)
C9_EmptyKeyRejected ==
    /\ \A i \in 1 .. Len(requests) : requests[i].x_api_key \notin {"None", ""}
    /\ (API_KEY \in {"None", ""} /\ file_exists /\ Terminated) =>
          result = "False"

(* C10: the call never ends by propagating an exception to its caller.     *)
C10_NeverRaises == pc # "RAISED"

C12_ContentTypeByExtension ==
    \A i \in 1 .. Len(requests) :
        requests[i].file.content_type =
            CASE fpath.ext = ".json" -> "application/json"
              [] fpath.ext = ".md" -> "text/markdown"
              [] fpath.ext = ".pdf" -> "application/pdf"
              [] fpath.ext = ".png" -> "image/png"
              [] fpath.ext \in {".jpg", ".jpeg"} -> "image/jpeg"
              [] OTHER -> "application/octet-stream"

(* C13: every request carries x-api-key equal to the key given, and        *)
(* carries x-client-hostname exactly when a client host name was supplied.  *)
C13_HeadersOfEveryRequest ==
    \A i \in 1 .. Len(requests) :
        /\ requests[i].x_api_key = API_KEY
        /\ ("x_client_hostname" \in DOMAIN requests[i]) <=>
               (client_hostname # "None")

(* C14: no step of an upload call changes the local file: it exists after  *)
(* the step if it did before, with the same contents.                       *)
C14_LocalFileUnchanged ==
    [][file_exists' = file_exists /\ file_content' = file_content]_vars

\* the file was read and sent three times and the call gave up
C14_Witness ==
    pc = "FAILED" /\ file_exists /\ Len(requests) = max_retries
    /\ file_content = "bytes"

(* C15: once the website has stored one upload of the file, storing a      *)
(* further upload of the same file and data type leaves its disk as it was: *)
(* one artifact, not one per accepted upload.                               *)
C15_ResendIsIdempotent ==
    [][(accepted >= 1 /\ accepted' = accepted + 1) => store' = store]_vars

\* a retry after an upload that the website had in fact stored
C15_Witness == accepted >= 2 /\ Cardinality(store) = 1

\* the value of the i-th input row was a number
IsNumber(c) == c.t = "num"

(* C16: for a table that has the five required columns the export writes   *)
(* one record per input row, in the order of the rows: the i-th record      *)
(* carries the number and the units of the i-th row.                        *)
C16_OneRecordPerRowInOrder ==
    (e_pc = "DONE" /\ Required \subseteq table.columns) =>
        /\ Len(out_file.records) = Len(table.rows)
        /\ e_printed = Len(table.rows)
        /\ \A i \in 1 .. Len(table.rows) :
              /\ IsNumber(table.rows[i]["value"]) =>
                    out_file.records[i]["value"] = table.rows[i]["value"]
              /\ IsNumber(out_file.records[i]["value"]) =>
                    IsNumber(table.rows[i]["value"])
              /\ (table.rows[i]["units"].t = "str") <=>
                    (out_file.records[i]["units"].t = "str")

\* two rows, the first without a value, the second with one, were exported
C16_Witness ==
    /\ e_pc = "DONE"
    /\ Len(table.rows) = 2
    /\ ~IsNumber(table.rows[1]["value"])
    /\ IsNumber(table.rows[2]["value"])

(* C17: a record whose source value is null or NaN is written with value   *)
(* null, and no written record has a non-finite value.                      *)
C17_NullValueWrittenAsNull ==
    e_pc = "DONE" =>
        \A i \in 1 .. Len(out_file.records) :
            /\ ~IsNumber(table.rows[i]["value"]) =>
                  out_file.records[i]["value"] = JsonNull
            /\ out_file.records[i]["value"] # JsonNaN

(* C18: every written record has exactly the five fields (station id,      *)
(* variable, value, time, units; the export keys them stid, variable,       *)
(* value, date_time, units), and no field other than value is null.         *)
C18_FiveFieldsOnlyValueNull ==
    e_pc = "DONE" =>
        \A i \in 1 .. Len(out_file.records) :
            /\ DOMAIN out_file.records[i] = Required
            /\ \A c \in Required \ {"value"} :
                  out_file.records[i][c].t \notin {"json_null", "json_NaN"}

C20_FilenameByMinute ==
    fn_names # <<>> =>
        /\ (truncate_to_minute(fn_times[1]) = truncate_to_minute(fn_times[2]))
              <=> (fn_names[1] = fn_names[2])
        /\ (fn_prefix = "map_obs" /\
            fn_times[1] = [year |-> 2025, month |-> 2, day |-> 4, hour |-> 0,
                           minute |-> 0, second |-> 0]) =>
              fn_names[1] = <<"map_obs", "_", "2", "0", "2", "5", "0", "2",
                              "0", "4", "_", "0", "0", "0", "0", "Z", ".json">>

\* two different instants of one minute were named alike
C20_Witness ==
    /\ fn_names # <<>>
    /\ fn_times[1] # fn_times[2]
    /\ fn_times[1].second # fn_times[2].second
    /\ fn_names[1] = fn_names[2]

(* C21: reading the written file back gives the list of records that was   *)
(* written: as many records, in the same order, and every field of every    *)
(* record equal to the one written, nulls and timestamps included.          *)
C21_RoundTrip ==
    e_pc = "PARSED" =>
        /\ Len(e_parsed) = Len(df.rows)
        /\ \A i \in 1 .. Len(e_parsed) :
              /\ DOMAIN e_parsed[i] = df.columns
              /\ \A c \in df.columns : py_eq(e_parsed[i][c], df.rows[i][c])

(* C22: load_config returns the pair exactly when the API key and the      *)
(* server address are both configured, and the pair it returns is the       *)
(* configured one; otherwise it fails with ConfigError naming a value that  *)
(* is missing. No returned pair has an absent member.                       *)
C22_LoadConfigPairOrConfigError ==
    \A i \in 1 .. Len(cfg_returned) :
        LET o == cfg_returned[i]
            missing == {n \in {"api_key", "server_address"} :
                           o.env[n] \in {"None", ""}}
        IN  /\ o.ok <=> (missing = {})
            /\ o.ok => /\ o.api_key = o.env.api_key
                       /\ o.server_address = o.env.server_address
                       /\ o.api_key \notin {"None", ""}
                       /\ o.server_address \notin {"None", ""}
            /\ ~o.ok => (o.error = "ConfigError" /\ o.missing \in missing)

\* a call failed naming the server address, the operator set it, the next
\* call returned the pair
C22_Witness ==
    /\ Len(cfg_returned) = 2
    /\ ~cfg_returned[1].ok
    /\ cfg_returned[1].missing = "server_address"
    /\ cfg_returned[1].env.server_address = ""
    /\ cfg_returned[2].ok

(* C23: backoff sleeps happen only between attempts: none before the first *)
(* request, one after each failed request that a further attempt follows,   *)
(* none after the last request, so a call that used k attempts slept k - 1  *)
(* times.                                                                   *)
C23_SleepsOnlyBetweenAttempts ==
    /\ requests = <<>> => sleeps = <<>>
    /\ pc = "SENDING" => Len(sleeps) = Len(requests)
    /\ pc = "RETRY_WAIT" => Len(sleeps) = Len(requests) - 1
    /\ Terminated => Len(sleeps) = attempts_used - 1
    /\ (Terminated /\ requests # <<>>) => Len(sleeps) = Len(requests) - 1

\* two failed requests, each followed by a sleep, then an answered third
C23_Witness ==
    pc = "SUCCESS" /\ Len(requests) = max_retries /\ Len(sleeps) = max_retries - 1

(* C24: at any time at most one upload request for a given artifact is on  *)
(* the wire, within a run and across the runs cron starts every ten         *)
(* minutes.                                                                 *)
C24_AtMostOneInFlight ==
    \A i \in 1 .. Len(runs) :
        runs[i].pc = "IN_FLIGHT" => in_flight(runs[i].artifact) = {i}

(* C25: every attempt of a call on an existing file, whether it ends in a  *)
(* response or in a network error, leaves exactly one log entry, which      *)
(* carries the number of the attempt; a finished call has as many entries   *)
(* as it used attempts.                                                     *)
C25_OneLogEntryPerAttempt ==
    file_exists =>
        /\ Len(printed) = Len(requests)
        /\ \A i \in 1 .. Len(printed) :
              /\ "attempt" \in DOMAIN printed[i]
              /\ printed[i].attempt = i
        /\ Terminated => Len(printed) = attempts_used

(* C26: every upload request is preceded, in the same run, by a request to *)
(* the website's health route that was answered 200.                        *)
C26_HealthCheckBeforeUpload ==
    \A i \in 1 .. Len(requests) :
        requests[i].endpoint = endpoint(server_address, file_type) =>
            \E j \in 1 .. (i - 1) :
                /\ requests[j].endpoint = health_endpoint(server_address)
                /\ responses[j].status = 200

(* C27: deploy-chpc.sh runs rsync or a remote ssh command only when every  *)
(* pre-flight gate passed: --test-only was not given, every option given is *)
(* known, .env exists, CHPC_USER, CHPC_HOST and CHPC_PROJECT_DIR are all    *)
(* non-empty, and the local tests passed or the operator answered y or Y.   *)
(* rsync is the first of them.                                              *)
C27_RemoteStepsOnlyAfterGates ==
    d_ran # <<>> =>
        /\ d_ran[1] = "rsync"
        /\ \A k \in 1 .. Len(d_args) : d_args[k] = "--skip-tests"
        /\ d_env.env_file
        /\ d_env.CHPC_USER # ""
        /\ d_env.CHPC_HOST # ""
        /\ d_env.CHPC_PROJECT_DIR # ""
        /\ d_env.tests_pass \/ d_env.answer \in {<<"y">>, <<"Y">>}

\* a full deployment after the operator overrode failing local tests
C27_Witness ==
    /\ d_exit = 0
    /\ d_ran = <<"rsync", "ssh setup", "ssh end-to-end">>
    /\ ~d_env.tests_pass
    /\ d_env.answer = <<"Y">>

\* the checks that fail in the environment run_health_check finds
ApiConfigFails == m_env.key_length # 64
WebsiteFails == m_env.BRC_SERVER_URL # "" /\ m_env.curl # "200"
FreshnessFails ==
    ~m_env.data_dir \/ ~m_env.latest_file \/ m_env.file_age_hours > 2
ResourcesFail ==
    m_env.disk_usage > 90 \/ (m_env.free /\ m_env.mem_usage > 90)
FailedChecks ==
    {c \in {"api", "website", "freshness", "resources"} :
        \/ c = "api" /\ ApiConfigFails
        \/ c = "website" /\ WebsiteFails
        \/ c = "freshness" /\ FreshnessFails
        \/ c = "resources" /\ ResourcesFail}

(* C28: run_health_check runs its checks whatever the earlier ones found   *)
(* (the API configuration, the website when its URL is configured, the data *)
(* freshness, the system resources, in this order); it returns 1 if the API *)
(* configuration check failed, otherwise 2 if one of the website, freshness *)
(* or resource checks failed, otherwise 0; and it logs one alert per failed *)
(* check.                                                                   *)
C28_HealthCheckStatus ==
    m_pc = "RETURNED" =>
        /\ m_ran = IF m_env.BRC_SERVER_URL # ""
                   THEN <<"check_api_config", "check_website_health",
                          "check_data_freshness", "check_system_resources">>
                   ELSE <<"check_api_config", "check_data_freshness",
                          "check_system_resources">>
        /\ m_return = IF ApiConfigFails THEN 1
                      ELSE IF WebsiteFails \/ FreshnessFails \/ ResourcesFail
                      THEN 2 ELSE 0
        /\ Len(m_log) = Cardinality(FailedChecks)

\* every check failed, the first one included, and all four were run
C28_Witness ==
    /\ m_pc = "RETURNED"
    /\ m_return = 1
    /\ Len(m_ran) = 4
    /\ Len(m_log) = 4
    /\ warnings = 3

(* C29: when the fetch command exits with a non-zero code c the script     *)
(* logs the failure line with that code c; when it exits with 0 it logs the *)
(* success line and no failure line.                                        *)
C29_FailureLineReportsExitCode ==
    t_pc = "DONE" =>
        IF t_exit = 0
        THEN t_log = <<starting_line, success_line>>
        ELSE t_log = <<starting_line, failure_line(t_exit)>>

\* the maximal runs of rows above the threshold that are at least
\* min_length long, as inclusive pairs of 0-based row numbers
MaximalRuns ==
    {r \in (0 .. Len(p_mask) - 1) \X (0 .. Len(p_mask) - 1) :
        /\ r[1] <= r[2]
        /\ \A k \in r[1] .. r[2] : p_mask[k + 1]
        /\ r[1] = 0 \/ ~p_mask[r[1]]
        /\ r[2] = Len(p_mask) - 1 \/ ~p_mask[r[2] + 2]
        /\ r[2] - r[1] + 1 >= min_length}

(* C30: find_consecutive_periods returns exactly the maximal runs of       *)
(* consecutive rows above the threshold that are at least min_length long,  *)
(* as inclusive (start, end) pairs in ascending order, disjoint, a run that *)
(* reaches the last row included.                                           *)
C30_PeriodsAreMaximalRuns ==
    p_pc = "RETURNED" =>
        /\ {periods[j] : j \in 1 .. Len(periods)} = MaximalRuns
        /\ \A j \in 1 .. Len(periods) - 1 : periods[j][2] < periods[j + 1][1]

\* a run too short was left out, and the run that reaches the last row is
\* the one period returned
C30_Witness ==
    /\ p_pc = "RETURNED"
    /\ min_length = 2
    /\ Len(p_mask) = 5
    /\ p_mask[1] /\ ~p_mask[2]
    /\ Len(periods) = 1
    /\ periods[1] = <<3, 4>>

====
